---- MODULE Spec2Model ----
(***************************************************************************)
(* Model of moabb/datasets/physionet_mi.py: the PhysionetMI dataset        *)
(* adapter.  The object's fields (hand_runs, feet_runs), the process-wide  *)
(* MNE configuration value MNE_DATASETS_EEGBCI_PATH, the upstream archive  *)
(* and the calls _load_one_run, _get_single_subject_data and data_path.    *)
(*                                                                         *)
(* Channel names are sequences of one-character strings, so that strip,    *)
(* upper and the rename table act on characters.  Sample indices are       *)
(* 0-based as in the source; a channel's data is a function on             *)
(* 0..n_times-1.  An MNE event is the triple <<sample, 0, code>>, so       *)
(* event[0] and event[2] of the source are e[1] and e[3] here.             *)
(***************************************************************************)
EXTENDS Integers, Sequences, FiniteSets, TLC

VARIABLES
    imagined,     \* constructor argument (ghost: the policy of the object)
    executed,     \* constructor argument (ghost)
    hand_runs,    \* self.hand_runs
    feet_runs,    \* self.feet_runs
    config,       \* mne config value MNE_DATASETS_EEGBCI_PATH, None if unset
    archive,      \* the upstream archive: the EDF content of each run's file
    pc,           \* position inside _get_single_subject_data, "idle" outside
    idx,          \* position of the for loop over hand_runs / feet_runs
    data,         \* the local dict of _get_single_subject_data
    call,         \* ghost: the last public call made, [op, subject, run]
    trace,        \* ghost: the _load_one_run calls of the last public call
    downloads,    \* ghost: the eegbci.load_data requests of the last call
    ret           \* what the last public call returned or raised

vars == <<imagined, executed, hand_runs, feet_runs, config, archive, pc,
          idx, data, call, trace, downloads, ret>>

-----------------------------------------------------------------------------
(* Bounds of the model *)

\* number of samples of every recording (raw.n_times)
NTimes == 3

\* longest channel name drawn for the name-normalisation inputs
MaxNameLen == 3

-----------------------------------------------------------------------------
(* Program constants *)

\* "Each subject performed 14 experimental runs": the runs the archive holds
NumRuns == 14

\* subjects=list(range(1, 110))
SubjectRangeStart == 1

SubjectRangeStop == 110

\* faulty variant: range(1, 109)
subject_list_short == SubjectRangeStart .. (SubjectRangeStop - 2)

\* self.subject_list
subject_list == SubjectRangeStart .. (SubjectRangeStop - 1)

\* get_config(...) is None
None == "None"

\* osp.expanduser("~")
Home == "/home/user"

\* osp.join(a, b)
OspJoin(a, b) == a \o "/" \o b

\* a value of MNE_DATASETS_EEGBCI_PATH persisted before the process started
Override == "/data/eegbci"

\* the name of the appended stim channel, 'STI 014'
StimName == <<"S", "T", "I", " ", "0", "1", "4">>

-----------------------------------------------------------------------------
(* __init__: the run lists of a policy *)

\* faulty variant: the hand and feet lists exchanged
InitRunsSwapped(im, ex) ==
    [ feet_runs |-> (IF im THEN <<4, 8, 12>> ELSE <<>>)
                    \o (IF ex THEN <<3, 7, 11>> ELSE <<>>),
      hand_runs |-> (IF im THEN <<6, 10, 14>> ELSE <<>>)
                    \o (IF ex THEN <<5, 9, 13>> ELSE <<>>) ]

\* faulty variant: the lists kept sorted instead of accumulated
InitRunsSorted(im, ex) ==
    [ feet_runs |-> IF im /\ ex THEN <<5, 6, 9, 10, 13, 14>>
                    ELSE (IF im THEN <<6, 10, 14>> ELSE <<>>)
                         \o (IF ex THEN <<5, 9, 13>> ELSE <<>>),
      hand_runs |-> IF im /\ ex THEN <<3, 4, 7, 8, 11, 12>>
                    ELSE (IF im THEN <<4, 8, 12>> ELSE <<>>)
                         \o (IF ex THEN <<3, 7, 11>> ELSE <<>>) ]

\* self.feet_runs = []; self.hand_runs = []; if imagined: += ...; if executed: += ...
InitRuns(im, ex) ==
    [ feet_runs |-> (<<>> \o (IF im THEN <<6, 10, 14>> ELSE <<>>))
                    \o (IF ex THEN <<5, 9, 13>> ELSE <<>>),
      hand_runs |-> (<<>> \o (IF im THEN <<4, 8, 12>> ELSE <<>>))
                    \o (IF ex THEN <<3, 7, 11>> ELSE <<>>) ]

-----------------------------------------------------------------------------
(* Channel-name normalisation of _load_one_run *)

\* str.upper() on one character
UpperTable ==
    [ c \in {"a","b","c","d","e","f","g","h","i","j","k","l","m","n","o","p",
             "q","r","s","t","u","v","w","x","y","z"} |->
        CASE c = "a" -> "A" [] c = "b" -> "B" [] c = "c" -> "C" [] c = "d" -> "D"
          [] c = "e" -> "E" [] c = "f" -> "F" [] c = "g" -> "G" [] c = "h" -> "H"
          [] c = "i" -> "I" [] c = "j" -> "J" [] c = "k" -> "K" [] c = "l" -> "L"
          [] c = "m" -> "M" [] c = "n" -> "N" [] c = "o" -> "O" [] c = "p" -> "P"
          [] c = "q" -> "Q" [] c = "r" -> "R" [] c = "s" -> "S" [] c = "t" -> "T"
          [] c = "u" -> "U" [] c = "v" -> "V" [] c = "w" -> "W" [] c = "x" -> "X"
          [] c = "y" -> "Y" [] c = "z" -> "Z" ]

\* x.upper()
Upper(x) ==
    [ i \in 1..Len(x) |-> IF x[i] \in DOMAIN UpperTable THEN UpperTable[x[i]] ELSE x[i] ]

RECURSIVE LStrip(_)
\* leading '.' characters removed
LStrip(x) == IF x # <<>> /\ Head(x) = "." THEN LStrip(Tail(x)) ELSE x

RECURSIVE RStrip(_)
\* trailing '.' characters removed
RStrip(x) ==
    IF x # <<>> /\ x[Len(x)] = "." THEN RStrip(SubSeq(x, 1, Len(x) - 1)) ELSE x

\* faulty variant of strip: a single trailing '.' removed
StripOneTrailingDot(x) ==
    IF x # <<>> /\ x[Len(x)] = "." THEN SubSeq(x, 1, Len(x) - 1) ELSE x

\* x.strip('.')
Strip(x) == RStrip(LStrip(x))

\* the dict handed to the third raw.rename_channels
ChannelRenames ==
    (<<"A","F","Z">> :> <<"A","F","z">>) @@ (<<"P","Z">> :> <<"P","z">>)
    @@ (<<"F","P","Z">> :> <<"F","p","z">>) @@ (<<"F","C","Z">> :> <<"F","C","z">>)
    @@ (<<"F","P","1">> :> <<"F","p","1">>) @@ (<<"C","Z">> :> <<"C","z">>)
    @@ (<<"O","Z">> :> <<"O","z">>) @@ (<<"P","O","Z">> :> <<"P","O","z">>)
    @@ (<<"I","Z">> :> <<"I","z">>) @@ (<<"C","P","Z">> :> <<"C","P","z">>)
    @@ (<<"F","P","2">> :> <<"F","p","2">>) @@ (<<"F","Z">> :> <<"F","z">>)

\* rename_channels with a dict, on one name: a name that is a key is replaced, any
\* other is kept
Rename(x) == IF x \in DOMAIN ChannelRenames THEN ChannelRenames[x] ELSE x

\* the three rename_channels calls on one channel name
NormalizeName(x) == Rename(Upper(Strip(x)))

\* the three rename_channels calls on raw.ch_names
NormalizeNames(names) == [ i \in 1..Len(names) |-> NormalizeName(names[i]) ]

-----------------------------------------------------------------------------
(* The upstream archive and the EDF reader *)

\* the annotation descriptions of the eegmmidb recordings
Descriptions == {"T0", "T1", "T2"}

\* position of a description in sorted (lexicographic) order
DescRank(d) == CASE d = "T0" -> 0 [] d = "T1" -> 1 [] d = "T2" -> 2

Samples == 0 .. (NTimes - 1)

\* the signal of channel c: the values 2 and 3, which the feet remap looks for
SignalData(c) == [ i \in Samples |-> IF (i + c) % 2 = 0 THEN 2 ELSE 3 ]

\* what read_raw_edf decodes from a file: names, signals, annotations
EdfFile(names, annotations) ==
    [ ch_names    |-> names,
      data        |-> [ c \in 1..Len(names) |-> SignalData(c) ],
      annotations |-> annotations ]

Ann(onset, d) == [ onset |-> onset, description |-> d ]

RECURSIVE AnnotationsFrom(_, _)
\* the annotations of a recording that has f[i] starting at sample i ("-": none)
AnnotationsFrom(f, i) ==
    IF i > NTimes - 1 THEN <<>>
    ELSE (IF f[i] = "-" THEN <<>> ELSE <<Ann(i, f[i])>>) \o AnnotationsFrom(f, i + 1)

\* every annotation list with distinct onsets in time order
AnnotationLists ==
    { AnnotationsFrom(f, 0) : f \in [Samples -> Descriptions \cup {"-"}] }

Runs == 1 .. NumRuns

AllThree == <<Ann(0, "T0"), Ann(1, "T1"), Ann(2, "T2")>>

\* recordings as eegmmidb holds them, channel names padded with dots: a baseline
\* run (rest only), a task run, and a task run in which no T1 trial was recorded
EdfRest == EdfFile(<<<<"F","p","1",".">>, <<"I","z",".",".">>>>, <<Ann(0, "T0")>>)

EdfTask == EdfFile(<<<<"F","c","5",".">>, <<"C","z",".",".">>>>, AllThree)

EdfTaskNoT1 == EdfFile(<<<<"A","f","z",".">>, <<"T","9",".",".">>>>,
                       <<Ann(0, "T0"), Ann(2, "T2")>>)

\* archives whose runs differ from one another
MixedArchives ==
    { [ r \in Runs |-> IF r <= 2 THEN EdfRest ELSE EdfTask ],
      [ r \in Runs |-> IF r <= 2 THEN EdfRest
                       ELSE IF r % 2 = 0 THEN EdfTask ELSE EdfTaskNoT1 ],
      [ r \in Runs |-> IF r % 4 \in {1, 2} THEN EdfTaskNoT1 ELSE EdfTask ] }

\* archives of one recording, with every annotation list
EventArchives ==
    { [ r \in Runs |-> EdfFile(<<<<"F","c","5",".">>, <<"C","z",".",".">>>>, a) ] :
        a \in AnnotationLists }

NameAlphabet == {"F", "p", "z", "1", "."}

Names == UNION { [1..k -> NameAlphabet] : k \in 0..MaxNameLen }

\* archives of one recording, with every channel name
NameArchives == { [ r \in Runs |-> EdfFile(<<n>>, AllThree) ] : n \in Names }

\* whether the archive holds a file for (subject, run)
Upstream(s, run) == s \in subject_list /\ run \in Runs

\* the local path eegbci.load_data returns for one run
Path(dir, s, run) == [ dir |-> dir, subject |-> s, run |-> run ]

-----------------------------------------------------------------------------
(* _load_one_run *)

\* faulty variant: set_config without the get_config test
EnsureConfigAlways(c) == OspJoin(Home, "mne_data")

\* if get_config(...) is None: set_config(..., osp.join(osp.expanduser("~"), "mne_data"))
EnsureConfig(c) == IF c = None THEN OspJoin(Home, "mne_data") ELSE c

\* mne.events_from_annotations(raw): codes 1.. for the descriptions present, sorted
EventsFromAnnotations(annotations) ==
    LET present == { annotations[i].description : i \in 1..Len(annotations) }
        code(d) == 1 + Cardinality({ o \in present : DescRank(o) < DescRank(d) })
    IN  [ i \in 1..Len(annotations) |->
            <<annotations[i].onset, 0, code(annotations[i].description)>> ]

RECURSIVE StimChannelPrev(_, _)
\* faulty variant: event[1] written instead of event[2]
StimChannelPrev(stim, events) ==
    IF events = <<>> THEN stim
    ELSE StimChannelPrev([stim EXCEPT ![Head(events)[1]] = Head(events)[2]], Tail(events))

RECURSIVE StimChannel(_, _)
\* for event in events: stim_channel[0, event[0]] = event[2]
StimChannel(stim, events) ==
    IF events = <<>> THEN stim
    ELSE StimChannel([stim EXCEPT ![Head(events)[1]] = Head(events)[3]], Tail(events))

\* _load_one_run after the download: read, rename, build and append the stim channel
LoadOneRunResult(edf, path) ==
    LET events == EventsFromAnnotations(edf.annotations)
        stim_channel == StimChannel([ i \in Samples |-> 0 ], events)
    IN  [ filenames |-> <<path>>,
          ch_names  |-> Append(NormalizeNames(edf.ch_names), StimName),
          data      |-> Append(edf.data, stim_channel) ]

-----------------------------------------------------------------------------
(* _get_single_subject_data: labels and the feet-run remap *)

Digits == <<"0", "1", "2", "3", "4", "5", "6", "7", "8", "9">>

RECURSIVE IntToStr(_)
\* '%d' % n for n >= 0
IntToStr(n) ==
    IF n < 10 THEN Digits[n + 1] ELSE IntToStr(n \div 10) \o Digits[(n % 10) + 1]

\* faulty variant: only the last digit of the run formatted
RunLabelLastDigit(run) == "run_" \o Digits[(run % 10) + 1]

\* 'run_%d' % run
RunLabel(run) == "run_" \o IntToStr(run)

\* data[key] = value
Put(d, key, value) ==
    [ k \in (DOMAIN d) \cup {key} |-> IF k = key THEN value ELSE d[k] ]

\* raw._data[-1, stim == old] = new, stim being the view raw._data[-1]
AssignWhere(d, old, new) ==
    LET last == Len(d)
        stim == d[last]
    IN  [ d EXCEPT ![last] = [ i \in DOMAIN stim |-> IF stim[i] = old THEN new ELSE stim[i] ] ]

\* faulty variant: the second assignment (3 -> 5) missing
RemapFeetHandsOnly(raw) == [ raw EXCEPT !.data = AssignWhere(raw.data, 2, 4) ]

\* faulty variant: raw._data[:, stim == old] = new, every channel written
RemapFeetAllChannels(raw) ==
    LET stim == raw.data[Len(raw.data)]
        all(d, old, new) ==
            [ c \in 1..Len(d) |->
                [ i \in DOMAIN d[c] |-> IF d[Len(d)][i] = old THEN new ELSE d[c][i] ] ]
    IN  [ raw EXCEPT !.data = all(all(raw.data, 2, 4), 3, 5) ]

\* raw._data[-1, stim == 2] = 4; raw._data[-1, stim == 3] = 5
RemapFeet(raw) ==
    [ raw EXCEPT !.data = AssignWhere(AssignWhere(raw.data, 2, 4), 3, 5) ]

-----------------------------------------------------------------------------
(* State *)

NoRet == [ kind |-> "none", value |-> <<>> ]

Raised(e) == [ kind |-> e, value |-> <<>> ]

\* the subjects the calls are made with: both ends of subject_list and just outside
TestSubjects ==
    {SubjectRangeStart - 1, SubjectRangeStart, SubjectRangeStop - 1, SubjectRangeStop}

\* the subjects _load_one_run is called with on its own: one upstream, one not
FetchSubjects == {SubjectRangeStart, SubjectRangeStop}

\* the runs _load_one_run is called with on its own, one of each kind: the two
\* baselines, hand executed and imagined, feet executed and imagined
FetchRuns == {1, 2, 3, 4, 5, 6}

InitWith(archives, policies, configs) ==
    /\ imagined \in { p[1] : p \in policies }
    /\ executed \in { p[2] : p \in { q \in policies : q[1] = imagined } }
    /\ hand_runs = InitRuns(imagined, executed).hand_runs
    /\ feet_runs = InitRuns(imagined, executed).feet_runs
    /\ config \in configs
    /\ archive \in archives
    /\ pc = "idle"
    /\ idx = 1
    /\ data = <<>>
    /\ call = [ op |-> "none", subject |-> 0, run |-> 0 ]
    /\ trace = <<>>
    /\ downloads = <<>>
    /\ ret = NoRet

\* PhysionetMI(imagined, executed) for every policy
Init == InitWith(MixedArchives, BOOLEAN \X BOOLEAN, {None, Override})

\* one recording upstream, with any annotation list; every run wanted
InitEvents == InitWith(EventArchives, {<<TRUE, TRUE>>}, {None})

\* one recording upstream, with any channel name; PhysionetMI() with its defaults
InitNames == InitWith(NameArchives, {<<TRUE, FALSE>>}, {None})

-----------------------------------------------------------------------------
(* One call of _load_one_run(subject, run) *)

\* [ok, raw, config, request]: the outcome, the config value left, the download asked
LoadOneRun(cfg, s, run) ==
    LET dir == EnsureConfig(cfg)
    IN  [ ok      |-> Upstream(s, run),
          raw     |-> LoadOneRunResult(archive[run], Path(dir, s, run)),
          config  |-> dir,
          request |-> [ subject |-> s, runs |-> <<run>>, dir |-> dir ] ]

\* a statement  data[key] = self._load_one_run(subject, run), in the feet loop with
\* the remap of the loaded raw before it is stored (remap), then control at nextpc;
\* or the exception load_data raises
LoadInto(key, run, remap, nextpc, nextidx) ==
    LET r == LoadOneRun(config, call.subject, run)
    IN  /\ config' = r.config
        /\ downloads' = Append(downloads, r.request)
        /\ IF r.ok
           THEN /\ data' = Put(data, key, IF remap THEN RemapFeet(r.raw) ELSE r.raw)
                /\ trace' = Append(trace, [ run |-> run, raw |-> r.raw ])
                /\ pc' = nextpc
                /\ idx' = nextidx
                /\ ret' = ret
           ELSE /\ data' = <<>>
                /\ trace' = trace
                /\ pc' = "idle"
                /\ idx' = 1
                /\ ret' = Raised("IOError")
        /\ UNCHANGED <<imagined, executed, hand_runs, feet_runs, archive, call>>

-----------------------------------------------------------------------------
(* _get_single_subject_data(subject) *)

\* entry: data = {}; set the config value if unset
GetSingleSubjectData(s) ==
    /\ pc = "idle"
    /\ call' = [ op |-> "_get_single_subject_data", subject |-> s, run |-> 0 ]
    /\ data' = <<>>
    /\ config' = EnsureConfig(config)
    /\ trace' = <<>>
    /\ downloads' = <<>>
    /\ ret' = NoRet
    /\ idx' = 1
    /\ pc' = "baseline_eye_open"
    /\ UNCHANGED <<imagined, executed, hand_runs, feet_runs, archive>>

\* data['baseline_eye_open'] = self._load_one_run(subject, 1)
LoadBaselineEyeOpen ==
    /\ pc = "baseline_eye_open"
    /\ LoadInto("baseline_eye_open", 1, FALSE, "baseline_eye_closed", 1)

\* data['baseline_eye_closed'] = self._load_one_run(subject, 2)
LoadBaselineEyeClosed ==
    /\ pc = "baseline_eye_closed"
    /\ LoadInto("baseline_eye_closed", 2, FALSE, "hand_runs", 1)

\* for run in self.hand_runs: data['run_%d' % run] = self._load_one_run(subject, run)
HandRuns ==
    /\ pc = "hand_runs"
    /\ IF idx <= Len(hand_runs)
       THEN LoadInto(RunLabel(hand_runs[idx]), hand_runs[idx], FALSE,
                     "hand_runs", idx + 1)
       ELSE /\ pc' = "feet_runs"
            /\ idx' = 1
            /\ UNCHANGED <<imagined, executed, hand_runs, feet_runs, config, archive,
                           data, call, trace, downloads, ret>>

\* for run in self.feet_runs: load, remap the stim channel, store;
\* then return {"session_0": data}
FeetRuns ==
    /\ pc = "feet_runs"
    /\ IF idx <= Len(feet_runs)
       THEN LoadInto(RunLabel(feet_runs[idx]), feet_runs[idx], TRUE,
                     "feet_runs", idx + 1)
       ELSE /\ ret' = [ kind |-> "data", value |-> [ k \in {"session_0"} |-> data ] ]
            /\ pc' = "idle"
            /\ idx' = 1
            /\ data' = <<>>
            /\ UNCHANGED <<imagined, executed, hand_runs, feet_runs, config, archive,
                           call, trace, downloads>>

-----------------------------------------------------------------------------
(* _load_one_run(subject, run) called on its own *)

FetchRun(s, run) ==
    /\ pc = "idle"
    /\ LET r == LoadOneRun(config, s, run)
       IN  /\ call' = [ op |-> "_load_one_run", subject |-> s, run |-> run ]
           /\ config' = r.config
           /\ downloads' = <<r.request>>
           /\ trace' = IF r.ok THEN <<[ run |-> run, raw |-> r.raw ]>> ELSE <<>>
           /\ ret' = IF r.ok THEN [ kind |-> "raw", value |-> r.raw ]
                     ELSE Raised("IOError")
    /\ UNCHANGED <<imagined, executed, hand_runs, feet_runs, archive, pc, idx, data>>

-----------------------------------------------------------------------------
(* data_path(subject) *)

DataPath(s) ==
    /\ pc = "idle"
    /\ call' = [ op |-> "data_path", subject |-> s, run |-> 0 ]
    /\ trace' = <<>>
    /\ IF s \notin subject_list
       THEN \* raise(ValueError("Invalid subject number"))
            /\ ret' = Raised("ValueError")
            /\ downloads' = <<>>
            /\ config' = config
       ELSE LET dir == EnsureConfig(config)
                runs == <<1, 2>> \o hand_runs \o feet_runs
            IN  /\ config' = dir
                /\ downloads' = <<[ subject |-> s, runs |-> runs, dir |-> dir ]>>
                /\ ret' = [ kind  |-> "paths",
                            value |-> [ i \in 1..Len(runs) |-> Path(dir, s, runs[i]) ] ]
    /\ UNCHANGED <<imagined, executed, hand_runs, feet_runs, archive, pc, idx, data>>

-----------------------------------------------------------------------------
(* Specifications *)

Next ==
    \/ \E s \in TestSubjects : GetSingleSubjectData(s)
    \/ LoadBaselineEyeOpen
    \/ LoadBaselineEyeClosed
    \/ HandRuns
    \/ FeetRuns
    \/ \E s \in FetchSubjects, run \in FetchRuns : FetchRun(s, run)
    \/ \E s \in TestSubjects : DataPath(s)

Spec == Init /\ [][Next]_vars

SpecEvents == InitEvents /\ [][Next]_vars

SpecNames == InitNames /\ [][Next]_vars

-----------------------------------------------------------------------------
(* The claims.  Their vocabulary is written out here, not taken from the model. *)

HandRunSet == {3, 7, 11, 4, 8, 12}

FeetRunSet == {5, 9, 13, 6, 10, 14}

IsHand(r) == r \in HandRunSet

IsFeet(r) == r \in FeetRunSet

IsImagined(r) == r \in {4, 8, 12, 6, 10, 14}

IsExecuted(r) == r \in {3, 7, 11, 5, 9, 13}

Ascending(q) == \A i, j \in 1..Len(q) : i < j => q[i] < q[j]

\* the runs _load_one_run was called with, in call order
LoadedRuns == [ i \in 1..Len(trace) |-> trace[i].run ]

\* the mapping under "session_0" of a returned SubjectData
Session == ret.value["session_0"]

\* the last channel of a recording
Marker(raw) == raw.data[Len(raw.data)]

\* the run a recording was read from
RunOf(raw) == raw.filenames[1].run

LabelOf(run) ==
    <<"baseline_eye_open", "baseline_eye_closed", "run_3", "run_4", "run_5", "run_6",
      "run_7", "run_8", "run_9", "run_10", "run_11", "run_12", "run_13", "run_14">>[run]

ExpectedRuns(im, ex) ==
    CASE im /\ ~ex  -> <<1, 2, 4, 8, 12, 6, 10, 14>>
      [] im /\ ex   -> <<1, 2, 4, 8, 12, 3, 7, 11, 6, 10, 14, 5, 9, 13>>
      [] ~im /\ ex  -> <<1, 2, 3, 7, 11, 5, 9, 13>>
      [] ~im /\ ~ex -> <<1, 2>>

\* C1: for every policy the runs asked of data_path's download and the runs loaded by
\* _get_single_subject_data are [1,2] ++ hand ++ feet, hand = [4,8,12] if imagined ++
\* [3,7,11] if executed, feet = [6,10,14] if imagined ++ [5,9,13] if executed; the
\* default policy gives [1,2,4,8,12,6,10,14].
C1_RunSequence ==
    /\ ret.kind = "paths" =>
         /\ downloads[1].runs = ExpectedRuns(imagined, executed)
         /\ [ i \in 1..Len(ret.value) |-> ret.value[i].run ]
              = ExpectedRuns(imagined, executed)
    /\ ret.kind = "data" => LoadedRuns = ExpectedRuns(imagined, executed)

C1_Witness ==
    /\ imagined /\ ~executed
    /\ ret.kind = "paths"
    /\ downloads[1].runs = <<1, 2, 4, 8, 12, 6, 10, 14>>

\* C2 as stated: the loaded runs are the baselines, then the hand runs in ascending
\* order, then the feet runs in ascending order, for every policy.
C2_AscendingGroups ==
    ret.kind = "data" =>
      LET hand == SelectSeq(LoadedRuns, IsHand)
          feet == SelectSeq(LoadedRuns, IsFeet)
      IN  /\ LoadedRuns = <<1, 2>> \o hand \o feet
          /\ Ascending(hand)
          /\ Ascending(feet)

\* C2 amended: the loaded runs are the baselines, then the hand runs, then the feet
\* runs; within the hand runs and within the feet runs the imagined runs come first,
\* ascending, then the executed runs, ascending.
C2_AccumulationOrder ==
    ret.kind = "data" =>
      LET hand == SelectSeq(LoadedRuns, IsHand)
          feet == SelectSeq(LoadedRuns, IsFeet)
      IN  /\ LoadedRuns = <<1, 2>> \o hand \o feet
          /\ \A g \in {hand, feet} :
               /\ g = SelectSeq(g, IsImagined) \o SelectSeq(g, IsExecuted)
               /\ Ascending(SelectSeq(g, IsImagined))
               /\ Ascending(SelectSeq(g, IsExecuted))
          /\ ~(imagined /\ executed) => Ascending(hand) /\ Ascending(feet)

C2_Witness ==
    /\ imagined /\ executed
    /\ ret.kind = "data"
    /\ SelectSeq(LoadedRuns, IsHand) = <<4, 8, 12, 3, 7, 11>>
    /\ SelectSeq(LoadedRuns, IsFeet) = <<6, 10, 14, 5, 9, 13>>

ExpectedKeys(im, ex) ==
    {"baseline_eye_open", "baseline_eye_closed"}
    \cup (IF im THEN {"run_4", "run_8", "run_12", "run_6", "run_10", "run_14"} ELSE {})
    \cup (IF ex THEN {"run_3", "run_7", "run_11", "run_5", "run_9", "run_13"} ELSE {})

\* C3: a returned SubjectData has the single key "session_0"; under it, one entry per
\* run of the policy: run 1 under "baseline_eye_open", run 2 under
\* "baseline_eye_closed", every hand or feet run i under "run_<i>", 2 + |hand| + |feet|
\* entries in all.
C3_SessionKeys ==
    ret.kind = "data" =>
      /\ DOMAIN ret.value = {"session_0"}
      /\ DOMAIN Session = ExpectedKeys(imagined, executed)
      /\ Cardinality(DOMAIN Session) = 2 + Len(hand_runs) + Len(feet_runs)
      /\ \A k \in DOMAIN Session :
           /\ Session[k].filenames[1].subject = call.subject
           /\ k = LabelOf(RunOf(Session[k]))

C3_Witness ==
    /\ imagined /\ ~executed
    /\ ret.kind = "data"
    /\ DOMAIN Session = {"baseline_eye_open", "baseline_eye_closed", "run_4", "run_8",
                         "run_12", "run_6", "run_10", "run_14"}

\* C4: in a returned SubjectData every sample of the marker channel of a feet run is
\* 0 or a code in {1, 4, 5}; 2 and 3 never remain.
C4_FeetCodes ==
    ret.kind = "data" =>
      \A k \in DOMAIN Session :
        IsFeet(RunOf(Session[k])) =>
          \A i \in DOMAIN Marker(Session[k]) : Marker(Session[k])[i] \in {0, 1, 4, 5}

C4_Witness ==
    /\ ret.kind = "data"
    /\ \E k \in DOMAIN Session :
         /\ IsFeet(RunOf(Session[k]))
         /\ archive[RunOf(Session[k])].annotations = AllThree
         /\ {4, 5} \subseteq { Marker(Session[k])[i] : i \in DOMAIN Marker(Session[k]) }

\* C5: the remap changes only the marker channel of feet runs: in a returned
\* SubjectData every recording has the names and the signal channels _load_one_run
\* gave it, a baseline or hand recording is what _load_one_run returned, with marker
\* values in {0..5}, and a feet marker differs only where it was 2 or 3.
C5_RemapFrame ==
    ret.kind = "data" =>
      \A t \in 1..Len(trace) :
        LET run     == trace[t].run
            fetched == trace[t].raw
            stored  == Session[LabelOf(run)]
        IN  /\ stored.ch_names = fetched.ch_names
            /\ stored.filenames = fetched.filenames
            /\ Len(stored.data) = Len(fetched.data)
            /\ \A c \in 1..(Len(fetched.data) - 1) : stored.data[c] = fetched.data[c]
            /\ ~IsFeet(run) =>
                 /\ stored = fetched
                 /\ \A i \in DOMAIN Marker(stored) : Marker(stored)[i] \in 0..5
            /\ IsFeet(run) =>
                 \A i \in DOMAIN Marker(fetched) :
                   Marker(fetched)[i] \notin {2, 3} => Marker(stored)[i] = Marker(fetched)[i]

C5_Witness ==
    /\ ret.kind = "data"
    /\ \E t \in 1..Len(trace) :
         /\ IsFeet(trace[t].run)
         /\ Session[LabelOf(trace[t].run)] # trace[t].raw
         /\ \E i \in Samples : trace[t].raw.data[1][i] = 2 /\ Marker(trace[t].raw)[i] = 2
    /\ \E t \in 1..Len(trace) :
         /\ IsHand(trace[t].run)
         /\ \E i \in Samples : Marker(trace[t].raw)[i] = 2

\* C6: whatever the run, _load_one_run returns the decoded recording with one channel
\* appended last, named "STI 014", of the recording's sample count, whose value is the
\* decoded event code at each event onset and 0 at every other sample.
C6_StimChannel ==
    \A t \in 1..Len(trace) :
      LET edf    == archive[trace[t].run]
          raw    == trace[t].raw
          events == EventsFromAnnotations(edf.annotations)
      IN  /\ Len(raw.ch_names) = Len(edf.ch_names) + 1
          /\ Len(raw.data) = Len(edf.data) + 1
          /\ \A c \in 1..Len(edf.data) : raw.data[c] = edf.data[c]
          /\ raw.ch_names[Len(raw.ch_names)] = <<"S", "T", "I", " ", "0", "1", "4">>
          /\ DOMAIN Marker(raw) = DOMAIN edf.data[1]
          /\ \A e \in 1..Len(events) : Marker(raw)[events[e][1]] = events[e][3]
          /\ \A i \in DOMAIN Marker(raw) :
               (\A e \in 1..Len(events) : events[e][1] # i) => Marker(raw)[i] = 0
          /\ ret.kind = "raw" => ret.value = raw

C6_Witness ==
    /\ ret.kind = "raw"
    /\ call.run = 5
    /\ \E i, j \in Samples : Marker(ret.value)[i] = 0 /\ Marker(ret.value)[j] = 2

\* C7: data_path with a subject outside 1..109 raises ValueError and asks for no
\* download; with a subject in 1..109 it returns the paths of runs
\* [1,2] ++ hand_runs ++ feet_runs of that subject.
C7_DataPath ==
    call.op = "data_path" =>
      IF call.subject \in 1..109
      THEN /\ ret.kind = "paths"
           /\ [ i \in 1..Len(ret.value) |-> ret.value[i].run ]
                = <<1, 2>> \o hand_runs \o feet_runs
           /\ \A i \in 1..Len(ret.value) :
                ret.value[i].subject = call.subject /\ ret.value[i].dir = config
           /\ Len(downloads) = 1
      ELSE /\ ret.kind = "ValueError"
           /\ downloads = <<>>

C7_Witness ==
    /\ call.op = "data_path"
    /\ call.subject = 110
    /\ ret.kind = "ValueError"
    /\ downloads = <<>>

\* C8: the config value is written only when unset: once set (by an earlier process or
\* by a call) it never changes, it is set to <home>/mne_data, every step of a call that
\* passed validation leaves it set, and every download is asked under the value set.
C8_ConfigSetOnce ==
    [][ /\ config # None => config' = config
        /\ config' # config => config' = "/home/user/mne_data"
        /\ ret'.kind # "ValueError" => config' # None
        /\ \A i \in 1..Len(downloads') : downloads'[i].dir = config' /\ config' # None
      ]_vars

C8_Witness ==
    /\ config = "/home/user/mne_data"
    /\ downloads # <<>>
    /\ ret.kind = "paths"

\* C9: normalising a normalised channel name changes nothing.
C9_NormalizeIdempotent ==
    \A t \in 1..Len(trace) :
      \A c \in 1..Len(archive[trace[t].run].ch_names) :
        NormalizeName(trace[t].raw.ch_names[c]) = trace[t].raw.ch_names[c]

C9_Witness ==
    \E t \in 1..Len(trace) :
      /\ archive[trace[t].run].ch_names[1] = <<"F", "z", ".">>
      /\ trace[t].raw.ch_names[1] = <<"F", "z">>

\* C10: in a returned SubjectData the marker channel of a feet run holds 1 at every
\* rest (T0) onset, 4 at every both-fists (T1) onset and 5 at every both-feet (T2)
\* onset, whichever of the three annotation types the recording contains.
C10_FeetVocabulary ==
    ret.kind = "data" =>
      \A k \in DOMAIN Session :
        IsFeet(RunOf(Session[k])) =>
          LET annotations == archive[RunOf(Session[k])].annotations
          IN  \A a \in 1..Len(annotations) :
                Marker(Session[k])[annotations[a].onset]
                  = CASE annotations[a].description = "T0" -> 1
                      [] annotations[a].description = "T1" -> 4
                      [] annotations[a].description = "T2" -> 5

====
